---- MODULE Spec2Model ----
(***************************************************************************)
(* Model of hubspot-ticket-exec-report: the business-hours calculator, the *)
(* single-window classifier of the dashboard (src/app.py) and the weekly   *)
(* rollup job (src/jobs/build_metrics.py) writing weekly_metrics.          *)
(*                                                                         *)
(* Time.  An instant is a number of minutes since the epoch, Monday 00:00  *)
(* UTC of week 0; a wall-clock (local) time is a number of minutes since   *)
(* Monday 00:00 Europe/Dublin wall clock of week 0.  The epoch lies in     *)
(* winter time (offset 0); the clocks go forward one hour on the Sunday of *)
(* week 0 at 01:00 UTC, as they do in Europe/Dublin on the last Sunday of  *)
(* March.  Durations are kept in minutes (the code divides seconds by      *)
(* 3600; 2.0 hours are 120 minutes here).                                  *)
(***************************************************************************)
EXTENDS Integers, Sequences, FiniteSets, TLC

VARIABLES
    bh_args,           \* business_hours_between: the arguments of the last call
    bh_result,         \* business_hours_between: its result, in minutes
    tickets_snapshot,  \* database table tickets_snapshot
    weekly_metrics,    \* database table weekly_metrics, as committed
    job_pc,            \* build_metrics.main: position
    job_args,          \* build_weekly_metrics: now and weeks_back
    job_df,            \* build_metrics.main: df
    job_weeks,         \* build_weekly_metrics: opened/closed/backlog of each week
    job_weekly,        \* build_metrics.main: weekly
    txn,               \* build_metrics.main: the transaction (open, its view of weekly_metrics)
    observed,          \* a concurrent reader of weekly_metrics (read, whether it read
                       \* while the job's transaction was open, the rows it read)
    app_pc,            \* app.py: position in the script
    app_tickets,       \* app.py: tickets, as loaded
    app_weekly,        \* app.py: weekly, as loaded
    app_window,        \* app.py: start_utc, end_utc
    app_t,             \* app.py: t, with closed_effective_at
    opened,            \* app.py: opened (ticket ids)
    closed,            \* app.py: closed (ticket id -> resolution_bh_hours)
    backlog,           \* app.py: backlog (ticket ids)
    kpi                \* app.py: the five KPI tiles

vars == <<bh_args, bh_result, tickets_snapshot, weekly_metrics, job_pc, job_args, job_df,
          job_weeks, job_weekly, txn, observed, app_pc, app_tickets, app_weekly, app_window,
          app_t, opened, closed, backlog, kpi>>

bhVars == <<bh_args, bh_result>>
dbVars == <<tickets_snapshot, weekly_metrics>>
jobVars == <<job_pc, job_args, job_df, job_weeks, job_weekly, txn>>
appVars == <<app_pc, app_tickets, app_weekly, app_window, app_t, opened, closed, backlog, kpi>>

----------------------------------------------------------------------------
(* Bounds *)

\* business_hours_between is called on instants of NumDays days, from the
\* Friday of week 0 on, on a grid of SlotsPerHour instants an hour.
NumDays == 4
SlotsPerHour == 4
\* build_weekly_metrics is called with weeks_back in 0..MaxWeeksBack.
MaxWeeksBack == 2

----------------------------------------------------------------------------
(* Calendar: datetime, timedelta and ZoneInfo("Europe/Dublin") *)

\* pandas NaT, the undefined instant: every instant of the model is >= 0, and
\* every comparison with NaT is false (Lt, Ge below).
NaT == 0 - 1
\* A missing category or owner_id (None / NaN).
NULL == "NULL"
\* A missing statistic (None / NaN): every duration is >= 0.
NoValue == 0 - 1

MinutesPerDay == 24 * 60
MinutesPerWeek == 7 * MinutesPerDay

\* The instant the clocks go forward: Sunday of week 0, 01:00 UTC.
DstStart == 6 * MinutesPerDay + 60

\* TZ.utcoffset, in minutes, of an instant.
UtcOffset(u) == IF u >= DstStart THEN 60 ELSE 0

\* dt.astimezone(TZ): the wall-clock time of an instant.
ToLocal(u) == u + UtcOffset(u)

\* dt.astimezone(ZoneInfo("UTC")) of a wall-clock time carrying tzinfo=TZ
\* (fold=0: a wall-clock time in the skipped hour takes the offset before it).
ToUTC(l) == IF l - 60 >= DstStart THEN l - 60 ELSE l

\* dt.date(), as a day number; dt.weekday(), Monday = 0.
DateOf(l) == l \div MinutesPerDay
Weekday(l) == DateOf(l) % 7

\* dt.replace(hour=0, minute=0, second=0, microsecond=0)
Midnight(l) == DateOf(l) * MinutesPerDay

WORK_START == 9 * 60
WORK_END == 17 * 60

Max(x, y) == IF x >= y THEN x ELSE y
Min(x, y) == IF x <= y THEN x ELSE y

----------------------------------------------------------------------------
(* business_hours_between (app.py 39-70, build_metrics.py 13-39) *)

IsWeekendSundayOnly(cur) == Weekday(cur) >= 6

\* cur.weekday() >= 5
IsWeekend(cur) == Weekday(cur) >= 5

\* The while loop; cur, start and end are wall-clock times.
RECURSIVE BusinessLoop(_, _, _, _)
BusinessLoop(cur, start, end, total) ==
    IF DateOf(cur) > DateOf(end) THEN total
    ELSE IF IsWeekend(cur)
         THEN BusinessLoop(Midnight(cur) + MinutesPerDay, start, end, total)
         ELSE LET day_start == DateOf(cur) * MinutesPerDay + WORK_START
                  day_end == DateOf(cur) * MinutesPerDay + WORK_END
                  window_start == Max(day_start, start)
                  window_end == Min(day_end, end)
                  add == IF window_end > window_start
                         THEN window_end - window_start ELSE 0
              IN  BusinessLoop(Midnight(cur) + MinutesPerDay, start, end, total + add)

business_hours_between(start, end) ==
    IF start = NaT \/ end = NaT THEN 0
    ELSE IF end <= start THEN 0
    ELSE BusinessLoop(ToLocal(start), ToLocal(start), ToLocal(end), 0)

----------------------------------------------------------------------------
(* Tickets: rows of tickets_snapshot, written by fetch_hubspot.main *)

\* datetime(..., tzinfo=TZ) on day `day` of the model's calendar.
LocalInstant(day, h, m) == ToUTC(day * MinutesPerDay + h * 60 + m)
Friday0(h, m) == LocalInstant(4, h, m)
Monday1(h, m) == LocalInstant(7, h, m)

\* Series comparisons: a comparison with NaT is False.
Lt(x, y) == x # NaT /\ y # NaT /\ x < y
Ge(x, y) == x # NaT /\ y # NaT /\ x >= y

\* The instants tickets carry: Friday 16:00 of week 0, Monday 00:00 of week 1
\* (a week boundary, just after the clocks changed) and Monday 10:00 of week 1.
CreatedValues == {NaT, Friday0(16, 0), Monday1(0, 0)}
ClosedValues == {NaT, Monday1(10, 0)}
UpdatedValues == {Friday0(16, 0), Monday1(10, 0)}
CategoryValues == {NULL, "Uncategorised", "Billing"}
OwnerValues == {NULL, "Unassigned"}

Tickets ==
    [created_at : CreatedValues, closed_at : ClosedValues, updated_at : UpdatedValues,
     is_closed : BOOLEAN, category : CategoryValues, owner_id : OwnerValues]

\* Tables of at most two tickets.
TicketTables == {<<>>} \cup [{1} -> Tickets] \cup [{1, 2} -> Tickets]

----------------------------------------------------------------------------
(* build_metrics.py *)

\* week_start(dt): the wall-clock Monday 00:00 of dt's week.
week_start(dt) ==
    LET l == ToLocal(dt) IN Midnight(l - Weekday(l) * MinutesPerDay)

NormaliseOwnerOnly(df) ==
    [i \in DOMAIN df |->
        [df[i] EXCEPT !.owner_id = IF @ = NULL THEN "Unassigned" ELSE @]]

\* main: df["owner_id"].fillna("Unassigned").astype(str);
\*       df["category"].fillna("Uncategorised")
NormaliseTickets(df) ==
    [i \in DOMAIN df |->
        [df[i] EXCEPT !.owner_id = IF @ = NULL THEN "Unassigned" ELSE @,
                      !.category = IF @ = NULL THEN "Uncategorised" ELSE @]]

\* The while loop that fills weeks: (cur, cur + 7 days), wall-clock times.
RECURSIVE WeekList(_, _)
WeekList(cur, end) ==
    IF cur < end
    THEN <<[ws |-> cur, we |-> cur + MinutesPerWeek]>> \o WeekList(cur + MinutesPerWeek, end)
    ELSE <<>>

WeeklyOpenedExclusive(df, ws_utc, we_utc) ==
    { i \in DOMAIN df : df[i].created_at # NaT /\ df[i].created_at > ws_utc
                        /\ Lt(df[i].created_at, we_utc) }

\* opened = df[(created_at >= ws_utc) & (created_at < we_utc)]
WeeklyOpened(df, ws_utc, we_utc) ==
    { i \in DOMAIN df : Ge(df[i].created_at, ws_utc) /\ Lt(df[i].created_at, we_utc) }

\* closed = df[(is_closed == True) & closed_at.notna()
\*             & (closed_at >= ws_utc) & (closed_at < we_utc)]
WeeklyClosed(df, ws_utc, we_utc) ==
    { i \in DOMAIN df : /\ df[i].is_closed
                        /\ df[i].closed_at # NaT
                        /\ Ge(df[i].closed_at, ws_utc)
                        /\ Lt(df[i].closed_at, we_utc) }

\* backlog = df[(created_at < we_utc)
\*              & (closed_at.isna() | (closed_at >= we_utc) | (is_closed == False))]
WeeklyBacklog(df, we_utc) ==
    { i \in DOMAIN df : /\ Lt(df[i].created_at, we_utc)
                        /\ \/ df[i].closed_at = NaT
                           \/ Ge(df[i].closed_at, we_utc)
                           \/ ~ df[i].is_closed }

\* The values of f on ids, in ascending order.
RECURSIVE SortedValues(_, _)
SortedValues(ids, f) ==
    IF ids = {} THEN <<>>
    ELSE LET i == CHOOSE j \in ids : \A k \in ids : f[j] <= f[k]
         IN  <<f[i]>> \o SortedValues(ids \ {i}, f)

\* Series.quantile(q) with linear interpolation, q = tenths / 10, of a sorted
\* non-empty series; Series.median() is the quantile 0.5.  The result is in
\* tenths of a minute, which keeps it an integer.
Quantile(s, tenths) ==
    LET pos == tenths * (Len(s) - 1)
        lo == (pos \div 10) + 1
        frac == pos % 10
    IN  IF frac = 0 THEN 10 * s[lo] ELSE 10 * s[lo] + frac * (s[lo + 1] - s[lo])

\* fillna(0) on the statistics.
MissingStatZero == NoValue + 1

\* A statistic of a group with no closed ticket: None when the week has no
\* closed ticket, NaN from the left merge otherwise.
MissingStat == NoValue

\* groupby(["category","owner_id"], dropna=False) sorts the keys, NaN last.
CategoryOrder == <<"Billing", "Uncategorised", NULL>>
OwnerOrder == <<"Unassigned", NULL>>
GroupKeys ==
    [k \in 1 .. (Len(CategoryOrder) * Len(OwnerOrder)) |->
        <<CategoryOrder[((k - 1) \div Len(OwnerOrder)) + 1],
          OwnerOrder[((k - 1) % Len(OwnerOrder)) + 1]>>]

KeyOf(r) == <<r.category, r.owner_id>>

\* The ids of S in the order of df's index.
IdsInOrder(df, S) == SelectSeq([i \in 1 .. Len(df) |-> i], LAMBDA i : i \in S)

\* cats = pd.concat([opened.assign(opened_count=1), closed.assign(closed_count=1),
\* backlog.assign(backlog_end_count=1)]): a row for every ticket of every
\* cohort, with NaN in the count columns of the other cohorts.
CatsRows(df, opened_w, closed_w, backlog_w) ==
    LET o == IdsInOrder(df, opened_w)
        c == IdsInOrder(df, closed_w)
        b == IdsInOrder(df, backlog_w)
    IN  [n \in 1 .. Len(o) |->
            [key |-> KeyOf(df[o[n]]), opened_count |-> 1,
             closed_count |-> NoValue, backlog_end_count |-> NoValue]]
        \o [n \in 1 .. Len(c) |->
            [key |-> KeyOf(df[c[n]]), opened_count |-> NoValue,
             closed_count |-> 1, backlog_end_count |-> NoValue]]
        \o [n \in 1 .. Len(b) |->
            [key |-> KeyOf(df[b[n]]), opened_count |-> NoValue,
             closed_count |-> NoValue, backlog_end_count |-> 1]]

\* groupby(...).sum(numeric_only=True) of one column for one group: NaN is
\* skipped, and a group that holds nothing but NaN sums to 0.
RECURSIVE SumColumn(_, _, _, _)
SumColumn(cats, key, col, n) ==
    IF n > Len(cats) THEN 0
    ELSE (IF cats[n].key = key /\ cats[n][col] # NoValue THEN cats[n][col] ELSE 0)
         + SumColumn(cats, key, col, n + 1)

\* One row of grouped, after the merge with stats and insert of week_start.
GroupRow(df, key, ws, cats, closed_w, bh) ==
    LET closed_in == { i \in closed_w : KeyOf(df[i]) = key }
        durations == SortedValues(closed_in, bh)
    IN  [week_start |-> DateOf(ws),
         category |-> key[1],
         owner_id |-> key[2],
         opened_count |-> SumColumn(cats, key, "opened_count", 1),
         closed_count |-> SumColumn(cats, key, "closed_count", 1),
         backlog_end_count |-> SumColumn(cats, key, "backlog_end_count", 1),
         median_bh_close_hours |->
             IF closed_in = {} THEN MissingStat ELSE Quantile(durations, 5),
         p90_bh_close_hours |->
             IF closed_in = {} THEN MissingStat ELSE Quantile(durations, 9)]

\* The body of the loop over weeks: the rows of one week, a row for every
\* group that has a ticket in opened, closed or backlog.
WeekRows(df, w) ==
    LET ws_utc == ToUTC(w.ws)
        we_utc == ToUTC(w.we)
        opened_w == WeeklyOpened(df, ws_utc, we_utc)
        closed_w == WeeklyClosed(df, ws_utc, we_utc)
        backlog_w == WeeklyBacklog(df, we_utc)
        bh == [i \in closed_w |->
                  business_hours_between(df[i].created_at, df[i].closed_at)]
        cats == CatsRows(df, opened_w, closed_w, backlog_w)
        present == { cats[n].key : n \in DOMAIN cats }
        keys == SelectSeq(GroupKeys, LAMBDA k : k \in present)
    IN  [n \in 1 .. Len(keys) |->
            GroupRow(df, keys[n], w.ws, cats, closed_w, bh)]

\* The cohorts of one week, as the loop computes them.
WeekCohorts(df, w) ==
    [ws_utc |-> ToUTC(w.ws),
     we_utc |-> ToUTC(w.we),
     opened |-> WeeklyOpened(df, ToUTC(w.ws), ToUTC(w.we)),
     closed |-> WeeklyClosed(df, ToUTC(w.ws), ToUTC(w.we)),
     backlog |-> WeeklyBacklog(df, ToUTC(w.we))]

RECURSIVE ConcatRows(_, _, _)
ConcatRows(df, weeks, n) ==
    IF n > Len(weeks) THEN <<>>
    ELSE WeekRows(df, weeks[n]) \o ConcatRows(df, weeks, n + 1)

\* out["category"].fillna("Uncategorised"); out["owner_id"].fillna("Unassigned")
FillOut(out) ==
    [n \in DOMAIN out |->
        [out[n] EXCEPT !.category = IF @ = NULL THEN "Uncategorised" ELSE @,
                       !.owner_id = IF @ = NULL THEN "Unassigned" ELSE @]]

\* weeks, for the current instant now.
RollupWeeks(now, weeks_back) ==
    WeekList(week_start(now) - 7 * weeks_back * MinutesPerDay, week_start(now))

\* build_weekly_metrics raises KeyError on out["category"] when rows is empty
\* (out is then pd.DataFrame(), a table with no column).
RaisesKeyError(now, weeks_back) == Len(RollupWeeks(now, weeks_back)) = 0

\* The table build_weekly_metrics returns.
build_weekly_metrics(df, now, weeks_back) ==
    FillOut(ConcatRows(df, RollupWeeks(now, weeks_back), 1))

----------------------------------------------------------------------------
(* Specification Spec: a run of build_metrics.main beside a reader *)

Idle == "idle"

\* The instants at which the job runs: the first and the last half hour of
\* week MaxWeeksBack.
NowInstants ==
    {LocalInstant(7 * MaxWeeksBack, 0, 0), LocalInstant(7 * MaxWeeksBack + 6, 23, 30)}

\* weekly_metrics as an earlier run left it.
OldRows ==
    <<[week_start |-> 0 - 7, category |-> "Legacy", owner_id |-> "Unassigned",
       opened_count |-> 1, closed_count |-> 0, backlog_end_count |-> 1,
       median_bh_close_hours |-> NoValue, p90_bh_close_hours |-> NoValue]>>

NoTxn == [open |-> FALSE, rows |-> <<>>]
NotRead == [read |-> FALSE, in_txn |-> FALSE, rows |-> <<>>]
NoArgs == [now |-> NaT, weeks_back |-> 0]

BhIdle ==
    /\ bh_args = <<>>
    /\ bh_result = NoValue

JobIdle ==
    /\ job_pc = Idle
    /\ job_args = NoArgs
    /\ job_df = <<>>
    /\ job_weeks = <<>>
    /\ job_weekly = <<>>
    /\ txn = NoTxn

AppIdle ==
    /\ app_pc = Idle
    /\ app_tickets = <<>>
    /\ app_weekly = <<>>
    /\ app_window = <<>>
    /\ app_t = <<>>
    /\ opened = {}
    /\ closed = <<>>
    /\ backlog = {}
    /\ kpi = <<>>

Init ==
    /\ BhIdle
    /\ tickets_snapshot \in TicketTables
    /\ weekly_metrics = OldRows
    /\ job_pc = "start"
    /\ job_args = NoArgs
    /\ job_df = <<>>
    /\ job_weeks = <<>>
    /\ job_weekly = <<>>
    /\ txn = NoTxn
    /\ observed = NotRead
    /\ AppIdle

\* main: df = pd.read_sql("select * from tickets_snapshot"), then the fillna's.
ReadSnapshot ==
    /\ job_pc = "start"
    /\ job_df' = NormaliseTickets(tickets_snapshot)
    /\ job_pc' = "loaded"
    /\ UNCHANGED <<bhVars, dbVars, job_args, job_weeks, job_weekly, txn, observed, appVars>>

\* main: weekly = build_weekly_metrics(df, weeks_back); now is datetime.now(TZ).
BuildWeekly ==
    /\ job_pc = "loaded"
    /\ \E now \in NowInstants, weeks_back \in 0 .. MaxWeeksBack :
        LET weeks == RollupWeeks(now, weeks_back) IN
        /\ job_args' = [now |-> now, weeks_back |-> weeks_back]
        /\ job_weeks' = [n \in 1 .. Len(weeks) |-> WeekCohorts(job_df, weeks[n])]
        /\ IF RaisesKeyError(now, weeks_back)
           THEN /\ job_pc' = "KeyError"
                /\ job_weekly' = <<>>
           ELSE /\ job_pc' = "built"
                /\ job_weekly' = build_weekly_metrics(job_df, now, weeks_back)
    /\ UNCHANGED <<bhVars, dbVars, job_df, txn, observed, appVars>>

\* main: with engine.begin() as conn
BeginTxn ==
    /\ job_pc = "built"
    /\ txn' = [open |-> TRUE, rows |-> weekly_metrics]
    /\ job_pc' = "begun"
    /\ UNCHANGED <<bhVars, dbVars, job_args, job_df, job_weeks, job_weekly, observed, appVars>>

DeleteRowsAutocommit ==
    /\ job_pc = "begun"
    /\ txn' = [txn EXCEPT !.rows = <<>>]
    /\ weekly_metrics' = <<>>
    /\ job_pc' = "deleted"
    /\ UNCHANGED <<bhVars, tickets_snapshot, job_args, job_df, job_weeks, job_weekly,
                   observed, appVars>>

\* main: conn.execute(text("delete from weekly_metrics"))
DeleteRows ==
    /\ job_pc = "begun"
    /\ txn' = [txn EXCEPT !.rows = <<>>]
    /\ job_pc' = "deleted"
    /\ UNCHANGED <<bhVars, dbVars, job_args, job_df, job_weeks, job_weekly, observed, appVars>>

\* main: weekly.to_sql("weekly_metrics", conn, if_exists="append")
InsertRows ==
    /\ job_pc = "deleted"
    /\ txn' = [txn EXCEPT !.rows = @ \o job_weekly]
    /\ job_pc' = "inserted"
    /\ UNCHANGED <<bhVars, dbVars, job_args, job_df, job_weeks, job_weekly, observed, appVars>>

\* main: to_sql raises; the with block rolls the transaction back.
InsertFails ==
    /\ job_pc = "deleted"
    /\ txn' = NoTxn
    /\ job_pc' = "failed"
    /\ UNCHANGED <<bhVars, dbVars, job_args, job_df, job_weeks, job_weekly, observed, appVars>>

\* main: the with block ends and commits.
Commit ==
    /\ job_pc = "inserted"
    /\ weekly_metrics' = txn.rows
    /\ txn' = NoTxn
    /\ job_pc' = "done"
    /\ UNCHANGED <<bhVars, tickets_snapshot, job_args, job_df, job_weeks, job_weekly,
                   observed, appVars>>

\* A reader, such as load_data of app.py: select * from weekly_metrics.
Reader ==
    /\ ~ observed.read
    /\ observed' = [read |-> TRUE, in_txn |-> txn.open, rows |-> weekly_metrics]
    /\ UNCHANGED <<bhVars, dbVars, jobVars, appVars>>

Next ==
    \/ ReadSnapshot
    \/ BuildWeekly
    \/ BeginTxn
    \/ DeleteRows
    \/ InsertRows
    \/ InsertFails
    \/ Commit
    \/ Reader

Spec == Init /\ [][Next]_vars

----------------------------------------------------------------------------
(* app.py: one run of the dashboard script *)

\* load_data: the same fillna's as main of build_metrics.py.
load_data_tickets(df) ==
    [i \in DOMAIN df |->
        [df[i] EXCEPT !.owner_id = IF @ = NULL THEN "Unassigned" ELSE @,
                      !.category = IF @ = NULL THEN "Uncategorised" ELSE @]]

\* start_of_week(dt): wall-clock Monday 00:00 of dt's week.
start_of_week(dt) ==
    LET l == Midnight(ToLocal(dt)) IN l - Weekday(l) * MinutesPerDay

\* last_week_range(now): wall-clock times.
last_week_range(now) ==
    <<start_of_week(now) - MinutesPerWeek, start_of_week(now)>>

\* The dates of the Start and End date inputs: the Mondays of weeks 0, 1, 2.
AppDates == {0, 7, 14}

\* start_dt, end_dt of the selected period.  "Last month" is left out: the
\* calendar of the model counts days and weeks, not months.
PeriodRange(period, now, sd, ed) ==
    IF period = "Last week" THEN last_week_range(now)
    ELSE <<sd * MinutesPerDay, ed * MinutesPerDay>>

\* The ranges the sidebar can select.
SelectedRanges ==
    { PeriodRange("Last week", now, 0, 0) : now \in NowInstants }
    \cup { PeriodRange("Custom", NaT, sd, ed) : sd \in AppDates, ed \in AppDates }

\* owners: owner_id -> full_name; no ticket of the model is assigned to Ann.
owner_map == [o \in {"101"} |-> "Ann"]
owner_name(r) ==
    IF r.owner_id \in DOMAIN owner_map THEN owner_map[r.owner_id] ELSE "Unassigned"

\* t = tickets.copy(), filtered by sel_cat and sel_agent; the rows keep their index.
FilterTickets(tickets, sel_cat, sel_agent) ==
    LET keep == { i \in DOMAIN tickets :
                    /\ sel_cat = "All" \/ tickets[i].category = sel_cat
                    /\ sel_agent = "All" \/ owner_name(tickets[i]) = sel_agent }
    IN  [i \in keep |-> tickets[i]]

\* t["closed_effective_at"]: closed_at, and updated_at where closed_at is
\* missing and is_closed is True.
ClosedEffectiveAtAnyStage(r) ==
    IF r.closed_at = NaT THEN r.updated_at ELSE r.closed_at

closed_effective_at(r) ==
    IF r.closed_at = NaT /\ r.is_closed THEN r.updated_at ELSE r.closed_at

\* t after lines 175-177: every row carries the column closed_effective_at.
WithClosedEffectiveAt(t) ==
    [i \in DOMAIN t |->
        [created_at |-> t[i].created_at, closed_at |-> t[i].closed_at,
         updated_at |-> t[i].updated_at, is_closed |-> t[i].is_closed,
         category |-> t[i].category, owner_id |-> t[i].owner_id,
         closed_effective_at |-> closed_effective_at(t[i])]]

AppOpenedInclusiveEnd(t, start_utc, end_utc) ==
    { i \in DOMAIN t : Ge(t[i].created_at, start_utc)
                       /\ t[i].created_at # NaT /\ t[i].created_at <= end_utc }

\* opened = t[(created_at >= start_utc) & (created_at < end_utc)]
AppOpened(t, start_utc, end_utc) ==
    { i \in DOMAIN t : Ge(t[i].created_at, start_utc) /\ Lt(t[i].created_at, end_utc) }

\* closed = t[(is_closed == True) & closed_effective_at.notna()
\*            & (closed_effective_at >= start_utc) & (closed_effective_at < end_utc)]
AppClosed(t, start_utc, end_utc) ==
    { i \in DOMAIN t : /\ t[i].is_closed
                       /\ closed_effective_at(t[i]) # NaT
                       /\ Ge(closed_effective_at(t[i]), start_utc)
                       /\ Lt(closed_effective_at(t[i]), end_utc) }

\* backlog = t[(created_at < end_utc) & (closed_effective_at.isna()
\*             | (closed_effective_at >= end_utc) | (is_closed == False))]
AppBacklog(t, end_utc) ==
    { i \in DOMAIN t : /\ Lt(t[i].created_at, end_utc)
                       /\ \/ closed_effective_at(t[i]) = NaT
                          \/ Ge(closed_effective_at(t[i]), end_utc)
                          \/ ~ t[i].is_closed }

\* closed["resolution_bh_hours"]
ResolutionHours(t, closed_ids) ==
    [i \in closed_ids |->
        business_hours_between(t[i].created_at, closed_effective_at(t[i]))]

\* The tile shows "-" instead of a number.
TileDash == NoValue

\* The KPI tiles; median and p90 before formatting, in tenths of a minute.
KpiTiles(opened_ids, resolution, backlog_ids) ==
    LET any == DOMAIN resolution # {}
        s == SortedValues(DOMAIN resolution, resolution)
    IN  [opened |-> Cardinality(opened_ids),
         closed |-> Cardinality(DOMAIN resolution),
         backlog |-> Cardinality(backlog_ids),
         median |-> IF any THEN Quantile(s, 5) ELSE TileDash,
         p90 |-> IF any THEN Quantile(s, 9) ELSE TileDash]

----------------------------------------------------------------------------
(* Specification SpecApp: the dashboard, after a run of the rollup job *)

InitApp ==
    /\ BhIdle
    /\ tickets_snapshot \in TicketTables
    /\ weekly_metrics \in
          { build_weekly_metrics(NormaliseTickets(tickets_snapshot), now, MaxWeeksBack) :
              now \in NowInstants }
    /\ JobIdle
    /\ observed = NotRead
    /\ app_pc = "start"
    /\ app_tickets = <<>>
    /\ app_weekly = <<>>
    /\ app_window = <<>>
    /\ app_t = <<>>
    /\ opened = {}
    /\ closed = <<>>
    /\ backlog = {}
    /\ kpi = <<>>

\* load_data()
LoadData ==
    /\ app_pc = "start"
    /\ app_tickets' = load_data_tickets(tickets_snapshot)
    /\ app_weekly' = weekly_metrics
    /\ app_pc' = "loaded"
    /\ UNCHANGED <<bhVars, dbVars, jobVars, observed, app_window, app_t, opened, closed,
                   backlog, kpi>>

\* The rest of the script: the sidebar inputs, the filters, the period
\* slices, the resolution times and the KPI tiles.
Report ==
    /\ app_pc = "loaded"
    /\ \E range \in SelectedRanges,
          sel_cat \in {"All"} \cup { app_tickets[i].category : i \in DOMAIN app_tickets },
          sel_agent \in {"All"} \cup { owner_name(app_tickets[i]) : i \in DOMAIN app_tickets } :
        LET start_utc == ToUTC(range[1])
            end_utc == ToUTC(range[2])
            t == FilterTickets(app_tickets, sel_cat, sel_agent)
            resolution == ResolutionHours(t, AppClosed(t, start_utc, end_utc))
        IN  /\ app_window' = <<start_utc, end_utc>>
            /\ app_t' = WithClosedEffectiveAt(t)
            /\ opened' = AppOpened(t, start_utc, end_utc)
            /\ closed' = resolution
            /\ backlog' = AppBacklog(t, end_utc)
            /\ kpi' = KpiTiles(AppOpened(t, start_utc, end_utc), resolution,
                               AppBacklog(t, end_utc))
    /\ app_pc' = "reported"
    /\ UNCHANGED <<bhVars, dbVars, jobVars, observed, app_tickets, app_weekly>>

NextApp == LoadData \/ Report

SpecApp == InitApp /\ [][NextApp]_vars

----------------------------------------------------------------------------
(* Specification SpecBH: calls of business_hours_between *)

SlotMinutes == 60 \div SlotsPerHour
GridInstants ==
    { Friday0(0, 0) + k * SlotMinutes :
        k \in 0 .. (NumDays * 24 * SlotsPerHour - 1) }

InitBH ==
    /\ bh_args \in (GridInstants \cup {NaT}) \X (GridInstants \cup {NaT})
    /\ bh_result = NoValue
    /\ tickets_snapshot = <<>>
    /\ weekly_metrics = <<>>
    /\ JobIdle
    /\ observed = NotRead
    /\ AppIdle

CallBusinessHours ==
    /\ bh_args # <<>>
    /\ bh_result = NoValue
    /\ bh_result' = business_hours_between(bh_args[1], bh_args[2])
    /\ UNCHANGED <<bh_args, dbVars, jobVars, observed, appVars>>

NextBH == CallBusinessHours

SpecBH == InitBH /\ [][NextBH]_vars

----------------------------------------------------------------------------
\* C1: for instants a < b, business_hours_between(a, b) is the sum, over the
\* Monday-Friday wall-clock days from a's date through b's date, of the
\* length of the intersection of that day's 09:00-17:00 window with [a, b);
\* Saturdays and Sundays contribute nothing.  Friday 16:00 -> Monday 10:00
\* is 2 hours, Monday 08:00 -> Monday 18:00 is 8 hours and Friday 17:30 ->
\* Monday 09:30 is half an hour.

\* The wall-clock minutes of day d's 09:00-17:00 window that lie in [la, lb).
DayShare(d, la, lb) ==
    IF d % 7 \in {5, 6} THEN 0
    ELSE Cardinality({ m \in (d * MinutesPerDay + 9 * 60) .. (d * MinutesPerDay + 17 * 60 - 1) :
                         la <= m /\ m < lb })

RECURSIVE SumDays(_, _, _, _)
SumDays(d, last, la, lb) ==
    IF d > last THEN 0 ELSE DayShare(d, la, lb) + SumDays(d + 1, last, la, lb)

C1_BusinessHours ==
    /\ business_hours_between(Friday0(16, 0), Monday1(10, 0)) = 120
    /\ business_hours_between(Monday1(8, 0), Monday1(18, 0)) = 480
    /\ business_hours_between(Friday0(17, 30), Monday1(9, 30)) = 30
    /\ (bh_result # NoValue /\ bh_args[1] # NaT /\ bh_args[2] # NaT) =>
          (bh_args[1] < bh_args[2] =>
              bh_result = SumDays(DateOf(ToLocal(bh_args[1])), DateOf(ToLocal(bh_args[2])),
                                  ToLocal(bh_args[1]), ToLocal(bh_args[2])))

\* A call that spans the weekend on which the clocks change.
C1_Witness ==
    /\ bh_args = <<Friday0(16, 0), Monday1(10, 0)>>
    /\ bh_result = 120

----------------------------------------------------------------------------
(* The claims about the classifier and the rollup *)

\* The effective close instant as the specification defines it: closed_at if
\* present, else updated_at when is_closed is true, else undefined.
EffectiveClose(r) ==
    IF r.closed_at # NaT THEN r.closed_at
    ELSE IF r.is_closed THEN r.updated_at ELSE NaT

\* build_weekly_metrics has returned.
JobBuilt == job_pc \in {"built", "begun", "deleted", "inserted", "failed", "done"}

InWindow(x, lo, hi) == x # NaT /\ lo <= x /\ x < hi

\* C2: a ticket is in the Closed cohort of a window [start, end) iff is_closed
\* is true and its effective close instant (closed_at, else updated_at when
\* is_closed) is defined and lies in [start, end); in each weekly window of
\* build_weekly_metrics and in the single window of app.py.
C2_ClosedCohort ==
    /\ JobBuilt =>
          \A n \in DOMAIN job_weeks : \A i \in DOMAIN job_df :
              i \in job_weeks[n].closed <=>
                  /\ job_df[i].is_closed
                  /\ InWindow(EffectiveClose(job_df[i]),
                              job_weeks[n].ws_utc, job_weeks[n].we_utc)
    /\ app_pc = "reported" =>
          \A i \in DOMAIN app_t :
              i \in DOMAIN closed <=>
                  /\ app_t[i].is_closed
                  /\ InWindow(EffectiveClose(app_t[i]), app_window[1], app_window[2])

\* C3: a ticket is in the Backlog cohort of a window ending at E iff
\* created_at < E and (no effective close instant is defined, or it is >= E,
\* or is_closed is false); in each weekly window and in app.py.
C3_BacklogCohort ==
    /\ JobBuilt =>
          \A n \in DOMAIN job_weeks : \A i \in DOMAIN job_df :
              i \in job_weeks[n].backlog <=>
                  /\ job_df[i].created_at # NaT
                  /\ job_df[i].created_at < job_weeks[n].we_utc
                  /\ \/ EffectiveClose(job_df[i]) = NaT
                     \/ EffectiveClose(job_df[i]) >= job_weeks[n].we_utc
                     \/ ~ job_df[i].is_closed
    /\ app_pc = "reported" =>
          \A i \in DOMAIN app_t :
              i \in backlog <=>
                  /\ app_t[i].created_at # NaT
                  /\ app_t[i].created_at < app_window[2]
                  /\ \/ EffectiveClose(app_t[i]) = NaT
                     \/ EffectiveClose(app_t[i]) >= app_window[2]
                     \/ ~ app_t[i].is_closed

\* C4: a ticket whose created_at is undefined is in none of the Opened,
\* Closed and Backlog cohorts of any window, so no duration enters the
\* resolution statistics on its behalf.
C4_NoCreatedAtNoCohort ==
    /\ JobBuilt =>
          \A n \in DOMAIN job_weeks : \A i \in DOMAIN job_df :
              job_df[i].created_at = NaT =>
                  i \notin (job_weeks[n].opened \cup job_weeks[n].closed
                            \cup job_weeks[n].backlog)
    /\ app_pc = "reported" =>
          \A i \in DOMAIN app_t :
              app_t[i].created_at = NaT =>
                  i \notin (opened \cup DOMAIN closed \cup backlog)

\* C5 as stated: a window with end <= start yields an empty Opened, an empty
\* Closed and an empty Backlog cohort.
C5_AllCohortsEmpty ==
    (app_pc = "reported" /\ app_window[2] <= app_window[1]) =>
        /\ opened = {}
        /\ DOMAIN closed = {}
        /\ backlog = {}

\* C5, amended: a window with end <= start yields an empty Opened and an
\* empty Closed cohort and no statistics; the Backlog cohort is still the
\* snapshot as of end: the tickets created before end that have no effective
\* close instant, or one at or after end, or are not closed.
C5_OpenedClosedEmpty ==
    (app_pc = "reported" /\ app_window[2] <= app_window[1]) =>
        /\ opened = {}
        /\ DOMAIN closed = {}
        /\ kpi.opened = 0 /\ kpi.closed = 0
        /\ kpi.median = NoValue /\ kpi.p90 = NoValue
        /\ backlog = { i \in DOMAIN app_t :
                         /\ app_t[i].created_at # NaT
                         /\ app_t[i].created_at < app_window[2]
                         /\ \/ EffectiveClose(app_t[i]) = NaT
                            \/ EffectiveClose(app_t[i]) >= app_window[2]
                            \/ ~ app_t[i].is_closed }

\* A zero-length window at the instant a ticket was created and a later one
\* was closed, with a ticket in the backlog.
C5_Witness ==
    /\ app_pc = "reported"
    /\ app_window[2] <= app_window[1]
    /\ \E i \in DOMAIN app_t : app_t[i].created_at = app_window[1]
    /\ backlog # {}

\* C6: for weeks_back = N >= 0 build_weekly_metrics returns without error a
\* table whose week_start takes exactly N distinct values, 7 days apart, the
\* newest 7 days before the Monday of now's week, oldest week first.
C6_WeekStarts ==
    /\ job_pc # "KeyError"
    /\ JobBuilt =>
          LET starts == { job_weekly[n].week_start : n \in DOMAIN job_weekly }
              newest == DateOf(week_start(job_args.now)) - 7
          IN  /\ Cardinality(starts) = job_args.weeks_back
              /\ starts = { newest - 7 * k : k \in 0 .. (job_args.weeks_back - 1) }
              /\ \A n \in 1 .. (Len(job_weekly) - 1) :
                    job_weekly[n].week_start <= job_weekly[n + 1].week_start

RECURSIVE SumOpened(_, _, _)
SumOpened(rows, week, n) ==
    IF n > Len(rows) THEN 0
    ELSE (IF rows[n].week_start = week THEN rows[n].opened_count ELSE 0)
         + SumOpened(rows, week, n + 1)

\* C7: for every week [w, w+7d) of the rollup the opened_count of the rows
\* stamped w add up to the number of tickets created in [w, w+7d); a group
\* with no opened ticket has opened_count 0; every ticket created inside the
\* rollup range is counted in exactly one week.
C7_OpenedSum ==
    JobBuilt =>
        LET weeks == RollupWeeks(job_args.now, job_args.weeks_back)
            created(lo, hi) ==
                { i \in DOMAIN tickets_snapshot :
                    InWindow(tickets_snapshot[i].created_at, ToUTC(lo), ToUTC(hi)) }
        IN  /\ \A k \in DOMAIN weeks :
                  SumOpened(job_weekly, DateOf(weeks[k].ws), 1)
                      = Cardinality(created(weeks[k].ws, weeks[k].we))
            /\ \A n \in DOMAIN job_weekly : job_weekly[n].opened_count \in Nat
            /\ \A i \in created(weeks[1].ws, weeks[Len(weeks)].we) :
                  Cardinality({ k \in DOMAIN weeks :
                                  i \in created(weeks[k].ws, weeks[k].we) }) = 1

\* A week with a group that opened a ticket, one of them at the very start of
\* the week, and a group that only has backlog.
C7_Witness ==
    /\ JobBuilt
    /\ \E i \in DOMAIN tickets_snapshot : tickets_snapshot[i].created_at = Monday1(0, 0)
    /\ \E n \in DOMAIN job_weekly, m \in DOMAIN job_weekly :
          /\ job_weekly[n].week_start = job_weekly[m].week_start
          /\ job_weekly[n].opened_count = 0
          /\ job_weekly[n].backlog_end_count > 0
          /\ job_weekly[m].opened_count > 0

\* C8: a reader of weekly_metrics sees the complete table of before the run
\* or the complete table the run computed, never an empty or partial one; if
\* the insert fails the old rows are still there; after a successful run the
\* table holds that run's rows and no others.
C8_AllOrNothing ==
    /\ weekly_metrics = OldRows \/ (job_pc = "done" /\ weekly_metrics = job_weekly)
    /\ observed.read =>
          \/ observed.rows = OldRows
          \/ job_pc = "done" /\ observed.rows = job_weekly
    /\ job_pc = "failed" => weekly_metrics = OldRows
    /\ job_pc = "done" => weekly_metrics = job_weekly

\* The reader read while the transaction was open, and the job has deleted
\* the old rows and not yet inserted the new ones.
C8_Witness ==
    /\ observed.read
    /\ observed.in_txn
    /\ observed.rows = OldRows
    /\ job_pc = "deleted"
    /\ txn.open /\ txn.rows = <<>>
    /\ job_weekly # <<>>

\* C9: statistics are "no value", never 0, where no closed ticket contributes:
\* every weekly row with closed_count 0 has both statistics null, a row with
\* closed_count > 0 has both defined, and the report shows no median and no
\* P90 when its Closed cohort is empty.
C9_NoValueNotZero ==
    /\ \A rows \in {weekly_metrics, job_weekly} : \A n \in DOMAIN rows :
          /\ rows[n].closed_count = 0 =>
                /\ rows[n].median_bh_close_hours = NoValue
                /\ rows[n].p90_bh_close_hours = NoValue
          /\ rows[n].closed_count > 0 =>
                /\ rows[n].median_bh_close_hours # NoValue
                /\ rows[n].p90_bh_close_hours # NoValue
    /\ app_pc = "reported" =>
          /\ DOMAIN closed = {} => (kpi.median = NoValue /\ kpi.p90 = NoValue)
          /\ DOMAIN closed # {} => (kpi.median # NoValue /\ kpi.p90 # NoValue)

\* A week in which one group closed a ticket and another did not, a week
\* with no closed ticket, and a report with an empty Closed cohort.
C9_Witness ==
    /\ \E n \in DOMAIN weekly_metrics, m \in DOMAIN weekly_metrics :
          /\ weekly_metrics[n].week_start = weekly_metrics[m].week_start
          /\ weekly_metrics[n].closed_count = 0
          /\ weekly_metrics[m].closed_count > 0
    /\ \E n \in DOMAIN weekly_metrics :
          \A m \in DOMAIN weekly_metrics :
              weekly_metrics[m].week_start = weekly_metrics[n].week_start =>
                  weekly_metrics[m].closed_count = 0
    /\ app_pc = "reported"
    /\ DOMAIN closed = {}
    /\ app_t # <<>>

\* C10: the table build_weekly_metrics returns has at most one row for each
\* (week_start, category, owner_id) and no row with an undefined category or
\* owner_id, whatever tickets_snapshot holds.
C10_UniqueKeys ==
    JobBuilt =>
        /\ \A n \in DOMAIN job_weekly, m \in DOMAIN job_weekly :
              (/\ job_weekly[n].week_start = job_weekly[m].week_start
               /\ job_weekly[n].category = job_weekly[m].category
               /\ job_weekly[n].owner_id = job_weekly[m].owner_id) => n = m
        /\ \A n \in DOMAIN job_weekly :
              job_weekly[n].category # NULL /\ job_weekly[n].owner_id # NULL

\* One ticket without a category, another with the literal "Uncategorised",
\* one of them without an owner, both in the backlog of the same week.
C10_Witness ==
    /\ JobBuilt
    /\ DOMAIN tickets_snapshot = {1, 2}
    /\ tickets_snapshot[1].category = NULL
    /\ tickets_snapshot[2].category = "Uncategorised"
    /\ tickets_snapshot[1].owner_id = NULL
    /\ tickets_snapshot[2].owner_id = "Unassigned"
    /\ \E n \in DOMAIN job_weekly :
          /\ job_weekly[n].category = "Uncategorised"
          /\ job_weekly[n].owner_id = "Unassigned"
          /\ job_weekly[n].backlog_end_count = 2

\* C11, as stated: the column closed_effective_at of app.py is undefined for
\* every ticket whose is_closed is false, whether or not closed_at is
\* populated; it is defined only when is_closed is true, as closed_at if
\* present, else updated_at.
C11_UndefinedUnlessClosed ==
    app_pc = "reported" =>
        \A i \in DOMAIN app_t :
            /\ ~ app_t[i].is_closed => app_t[i].closed_effective_at = NaT
            /\ app_t[i].is_closed =>
                  app_t[i].closed_effective_at =
                      IF app_t[i].closed_at # NaT THEN app_t[i].closed_at
                      ELSE app_t[i].updated_at

\* C11, amended: closed_effective_at is closed_at wherever closed_at is
\* populated, whatever is_closed says; where closed_at is missing it is
\* updated_at if is_closed is true and undefined if is_closed is false.  A
\* ticket whose is_closed is false is still never in the Closed cohort, and
\* is in the Backlog cohort whenever it was created before the window's end.
C11_ClosedAtElseFallback ==
    app_pc = "reported" =>
        \A i \in DOMAIN app_t :
            /\ app_t[i].closed_at # NaT =>
                  app_t[i].closed_effective_at = app_t[i].closed_at
            /\ (app_t[i].closed_at = NaT /\ app_t[i].is_closed) =>
                  app_t[i].closed_effective_at = app_t[i].updated_at
            /\ (app_t[i].closed_at = NaT /\ ~ app_t[i].is_closed) =>
                  app_t[i].closed_effective_at = NaT
            /\ ~ app_t[i].is_closed =>
                  /\ i \notin DOMAIN closed
                  /\ (app_t[i].created_at # NaT /\ app_t[i].created_at < app_window[2])
                        => i \in backlog

\* A reopened ticket (is_closed false, closed_at populated inside the window)
\* next to an open ticket that was never closed and a report that keeps both.
C11_Witness ==
    /\ app_pc = "reported"
    /\ DOMAIN app_t = {1, 2}
    /\ ~ app_t[1].is_closed
    /\ app_t[1].closed_at # NaT
    /\ app_t[1].closed_effective_at = app_t[1].closed_at
    /\ app_window[1] <= app_t[1].closed_at
    /\ app_t[1].closed_at < app_window[2]
    /\ 1 \in backlog
    /\ ~ app_t[2].is_closed
    /\ app_t[2].closed_at = NaT
    /\ app_t[2].closed_effective_at = NaT

====
